---------------------------- MODULE Spec2Model ----------------------------
(***************************************************************************)
(* A model of sam-zfs-unlocker (src/src/lib.rs): the dataset-name          *)
(* validator, the parsers of the zfs tool's tabular output, the two        *)
(* single-dataset state queries and the four lifecycle operations          *)
(* (load-key, unload-key, mount, umount).                                  *)
(*                                                                         *)
(* Text is modelled as a sequence of characters, each character a          *)
(* one-character string, so that trimming, splitting and matching are      *)
(* computed and not assumed.                                               *)
(*                                                                         *)
(* The zfs tool itself is not part of the repository.  The library reads   *)
(* only its exit status and its output, so every external process is an    *)
(* input of the model: whether it spawns, whether its pipes can be read,   *)
(* and its exit status are chosen freely.  A privileged command that exits *)
(* with status 0 has done what it was asked to do; the model puts no       *)
(* further guard of the tool's own between the library and the dataset.    *)
(***************************************************************************)
EXTENDS Naturals, Sequences, FiniteSets, TLC

VARIABLES
    fin,      \* pure-function harness: the argument of the last application
    fout,     \* pure-function harness: its result
    fprev,    \* pure-function harness: the application before it
    fstage,   \* pure-function harness: what has been applied so far
    zfs,      \* the external system: per existing dataset, its two columns
    call,     \* per caller, the call in progress (its position and locals)
    last      \* the most recently returned call

vars == <<fin, fout, fprev, fstage, zfs, call, last>>

---------------------------------------------------------------------------
(* Bounds of the model. *)

\* Longest raw dataset name the validator harness enumerates.
MaxNameLen == 4

\* Longest run of whitespace the harness puts before and after a text.
MaxPad == 1

\* Most rows in a scripted output of the zfs tool.
MaxRows == 2

---------------------------------------------------------------------------
(* Characters. *)

\* char::is_whitespace / the characters str::trim removes (those the model uses).
Whitespace == {" ", "\t", "\n", "\r"}

\* ALLOWED_SYMBOLS
AllowedSymbols == {"-", "_", ".", ":"}

\* char::is_ascii_alphanumeric
AsciiAlphanumeric ==
    {"a","b","c","d","e","f","g","h","i","j","k","l","m",
     "n","o","p","q","r","s","t","u","v","w","x","y","z",
     "A","B","C","D","E","F","G","H","I","J","K","L","M",
     "N","O","P","Q","R","S","T","U","V","W","X","Y","Z",
     "0","1","2","3","4","5","6","7","8","9"}

---------------------------------------------------------------------------
(* Results: Result<T, ZfsError> with T one of (), String, Option<bool>.    *)
(* text is the String a value or an error carries first (the dataset name  *)
(* or the offending token), msg the captured diagnostic text.              *)

NoResult == [tag |-> "none", val |-> "", text |-> <<>>, msg |-> ""]

OkUnit == [tag |-> "Ok", val |-> "()", text |-> <<>>, msg |-> ""]

OkString(s) == [tag |-> "Ok", val |-> "String", text |-> s, msg |-> ""]

OkSome(b) ==
    [tag |-> "Ok", val |-> IF b THEN "Some(true)" ELSE "Some(false)",
     text |-> <<>>, msg |-> ""]

OkNone == [tag |-> "Ok", val |-> "None", text |-> <<>>, msg |-> ""]

OkBool(b) ==
    [tag |-> "Ok", val |-> IF b THEN "true" ELSE "false",
     text |-> <<>>, msg |-> ""]

Err(kind, s, m) == [tag |-> "Err", val |-> kind, text |-> s, msg |-> m]

IsOk(r) == r.tag = "Ok"

IsErr(r) == r.tag = "Err"

---------------------------------------------------------------------------
(* str::trim, str::split. *)

RECURSIVE TrimStart(_)
TrimStart(s) ==
    IF s # <<>> /\ Head(s) \in Whitespace THEN TrimStart(Tail(s)) ELSE s

RECURSIVE TrimEnd(_)
TrimEnd(s) ==
    IF s # <<>> /\ s[Len(s)] \in Whitespace
    THEN TrimEnd(SubSeq(s, 1, Len(s) - 1))
    ELSE s

Trim_StartOnly(s) == TrimStart(s)

Trim(s) == TrimEnd(TrimStart(s))

\* s.split(sep): the pieces between separators, empty pieces included.
RECURSIVE Split(_, _)
Split(s, sep) ==
    LET at == {i \in 1..Len(s) : s[i] = sep}
    IN  IF at = {}
        THEN <<s>>
        ELSE LET i == CHOOSE j \in at : \A k \in at : j <= k
             IN  <<SubSeq(s, 1, i - 1)>> \o Split(SubSeq(s, i + 1, Len(s)), sep)

---------------------------------------------------------------------------
(* check_and_sanitize_zfs_dataset_name *)

check_func_AnyFirstChar(part) ==
    /\ \A i \in 1..Len(part) : part[i] \in AsciiAlphanumeric \cup AllowedSymbols
    /\ \A i \in 1..Len(part) : part[i] \notin Whitespace
    /\ part # <<>>

check_func(part) ==
    /\ \A i \in 1..Len(part) : part[i] \in AsciiAlphanumeric \cup AllowedSymbols
    /\ \A i \in 1..Len(part) : part[i] \notin Whitespace
    /\ part # <<>>
    /\ ~(part # <<>> /\ part[1] \in AllowedSymbols)

check_and_sanitize_zfs_dataset_name_FirstPartOnly(zfs_dataset) ==
    LET dataset == Trim(zfs_dataset)
        parts   == Split(dataset, "/")
    IN  IF ~check_func(parts[1])
        THEN Err("DatasetNameIsInvalid", dataset, "")
        ELSE OkString(dataset)

\* The code also applies check_func to the whole name first (line 81) and
\* discards the answer; that statement has no effect and is left out.
check_and_sanitize_zfs_dataset_name(zfs_dataset) ==
    LET dataset == Trim(zfs_dataset)
        parts   == Split(dataset, "/")
    IN  IF ~(\A k \in 1..Len(parts) : check_func(parts[k]))
        THEN Err("DatasetNameIsInvalid", dataset, "")
        ELSE OkString(dataset)

---------------------------------------------------------------------------
(* The state of the lifecycle part while a pure-function harness runs. *)

NoCall == [in |-> <<>>, out |-> NoResult]

LifecycleIdle ==
    /\ zfs = <<>>
    /\ call = <<>>
    /\ last = <<>>

---------------------------------------------------------------------------
(* Harness of the validator: a raw name is validated, then either the      *)
(* accepted identifier is validated again, or whitespace is put around the *)
(* raw name and the result is validated.                                   *)

NameAlphabet == {"a", "7", "-", ".", "/", " ", "@"}

RECURSIVE StringsOver(_, _)
StringsOver(alphabet, n) ==
    IF n = 0
    THEN {<<>>}
    ELSE LET shorter == StringsOver(alphabet, n - 1)
         IN  shorter \cup {<<c>> \o s : c \in alphabet, s \in {t \in shorter : Len(t) = n - 1}}

RawNames == StringsOver(NameAlphabet, MaxNameLen)

Pads == StringsOver({" ", "\t"}, MaxPad)

InitValidate ==
    /\ fin \in RawNames
    /\ fout = NoResult
    /\ fprev = NoCall
    /\ fstage = "input"
    /\ LifecycleIdle

Validate ==
    /\ fstage = "input"
    /\ fout' = check_and_sanitize_zfs_dataset_name(fin)
    /\ fstage' = "validated"
    /\ UNCHANGED <<fin, fprev, zfs, call, last>>

Revalidate ==
    /\ fstage = "validated"
    /\ IsOk(fout)
    /\ fprev' = [in |-> fin, out |-> fout]
    /\ fin' = fout.text
    /\ fout' = check_and_sanitize_zfs_dataset_name(fout.text)
    /\ fstage' = "revalidated"
    /\ UNCHANGED <<zfs, call, last>>

PadAndValidate ==
    /\ fstage = "validated"
    /\ \E l \in Pads, t \in Pads :
         /\ l \o t # <<>>
         /\ fprev' = [in |-> fin, out |-> fout]
         /\ fin' = l \o fin \o t
         /\ fout' = check_and_sanitize_zfs_dataset_name(l \o fin \o t)
    /\ fstage' = "padded"
    /\ UNCHANGED <<zfs, call, last>>

NextValidate == Validate \/ Revalidate \/ PadAndValidate

SpecValidate == InitValidate /\ [][NextValidate]_vars

---------------------------------------------------------------------------
(* What the claims about the validator say of a name, stated on the        *)
(* characters and their positions, without splitting.                      *)

HasWhitespace(s) == \E i \in 1..Len(s) : s[i] \in Whitespace

HasDisallowedChar(s) ==
    \E i \in 1..Len(s) : s[i] \notin AsciiAlphanumeric \cup AllowedSymbols \cup {"/"}

HasEmptySegment(s) ==
    \/ s = <<>>
    \/ s[1] = "/"
    \/ s[Len(s)] = "/"
    \/ \E i \in 1..(Len(s) - 1) : s[i] = "/" /\ s[i + 1] = "/"

HasSegmentStartingWithSymbol(s) ==
    \E i \in 1..Len(s) :
        /\ s[i] \in AllowedSymbols
        /\ (i = 1 \/ s[i - 1] = "/")

Malformed(s) ==
    \/ HasWhitespace(s)
    \/ HasDisallowedChar(s)
    \/ HasEmptySegment(s)
    \/ HasSegmentStartingWithSymbol(s)

WellFormed(s) == ~Malformed(s)

Rejected(r) == IsErr(r) /\ r.val = "DatasetNameIsInvalid"

\* t is s without its leading and trailing whitespace.
IsTrimOf(t, s) ==
    \E i \in 1..(Len(s) + 1), j \in 0..Len(s) :
        /\ t = SubSeq(s, i, j)
        /\ \A k \in 1..(i - 1) : s[k] \in Whitespace
        /\ \A k \in (j + 1)..Len(s) : s[k] \in Whitespace
        /\ (t = <<>> \/ (t[1] \notin Whitespace /\ t[Len(t)] \notin Whitespace))

\* s without its leading and trailing whitespace, found by search.
Stripped(s) ==
    CHOOSE t \in {SubSeq(s, i, j) : i \in 1..(Len(s) + 1), j \in 0..Len(s)} :
        IsTrimOf(t, s)

---------------------------------------------------------------------------
\* C8 as stated: the validator rejects every string that contains
\* whitespace, a disallowed character, an empty segment or a segment that
\* starts with one of - _ . : (the string taken as given, untrimmed).
C8_RejectsMalformedUntrimmed ==
    (fstage # "input" /\ Malformed(fin)) => Rejected(fout)

\* C8, amended: the validator rejects every string that, once its leading
\* and trailing whitespace is trimmed, contains whitespace, a character
\* outside ASCII alphanumerics and - _ . :, an empty '/'-separated segment
\* (the empty string and doubled separators included) or a segment whose
\* first character is one of - _ . :.
C8_RejectsMalformedAfterTrim ==
    (fstage # "input" /\ Malformed(Stripped(fin))) => Rejected(fout)

\* C8 witness: a name whose second segment starts with a symbol, and which
\* has no other defect, has been validated and rejected.
C8_Witness ==
    /\ fstage = "validated"
    /\ HasSegmentStartingWithSymbol(fin)
    /\ ~HasWhitespace(fin) /\ ~HasDisallowedChar(fin) /\ ~HasEmptySegment(fin)
    /\ fin[1] \in AsciiAlphanumeric
    /\ Rejected(fout)

\* C9: the validator accepts every well-formed name (all segments
\* non-empty, only ASCII alphanumerics and - _ . :, first character
\* alphanumeric); whitespace put before or after such a name does not
\* change the outcome; the identifier returned is the trimmed input, and
\* validating an accepted identifier again returns it unchanged.
C9_AcceptsWellFormed ==
    /\ (fstage = "validated" /\ WellFormed(fin)) => fout = OkString(fin)
    /\ (fstage = "padded" /\ WellFormed(fprev.in)) =>
           /\ fout = fprev.out
           /\ fout = OkString(fprev.in)
    /\ (fstage # "input" /\ IsOk(fout)) => IsTrimOf(fout.text, fin)
    /\ fstage = "revalidated" => (fout = fprev.out /\ fout = OkString(fin))

\* C9 witness: a well-formed two-segment name was accepted, whitespace was
\* put on both sides of it, and the padded name has been validated.
C9_Witness ==
    /\ fstage = "padded"
    /\ WellFormed(fprev.in)
    /\ \E i \in 1..Len(fprev.in) : fprev.in[i] = "/"
    /\ fin[1] \in Whitespace /\ fin[Len(fin)] \in Whitespace
    /\ IsOk(fout)

---------------------------------------------------------------------------
(* The words of the zfs tool's columns, and the names the model uses. *)

W_available == <<"a", "v", "a", "i", "l", "a", "b", "l", "e">>

W_unavailable == <<"u", "n", "a", "v", "a", "i", "l", "a", "b", "l", "e">>

\* The sentinel: key status not applicable, the dataset is not encrypted.
W_dash == <<"-">>

W_yes == <<"y", "e", "s">>

W_no == <<"n", "o">>

\* Words outside both vocabularies.
W_Yes == <<"Y", "e", "s">>

W_dot == <<".">>

W_2222 == <<"2", "2", "2", "2">>

W_on == <<"o", "n">>

DsA == <<"p", "/", "a">>

DsB == <<"p", "/", "b">>

---------------------------------------------------------------------------
(* parse_key_available_state, parse_dataset_mounted_state *)

parse_key_available_state(state) ==
    LET t == Trim(state)
    IN  IF t = W_available THEN OkBool(TRUE)
        ELSE IF t = W_unavailable THEN OkBool(FALSE)
        ELSE Err("UnexpectedStateForKey", state, "")

parse_dataset_mounted_state_NoTrim(state) ==
    IF state = W_yes THEN OkBool(TRUE)
    ELSE IF state = W_no THEN OkBool(FALSE)
    ELSE Err("UnexpectedStateForMount", state, "")

parse_dataset_mounted_state(state) ==
    LET t == Trim(state)
    IN  IF t = W_yes THEN OkBool(TRUE)
        ELSE IF t = W_no THEN OkBool(FALSE)
        ELSE Err("UnexpectedStateForMount", state, "")

\* Result::map(Some)
MapSome(r) == IF IsOk(r) THEN OkSome(r.val = "true") ELSE r

---------------------------------------------------------------------------
(* str::lines, str::split_whitespace, and the name -> value map the        *)
(* queries collect from the rows.                                          *)

StripCr(line) ==
    IF line # <<>> /\ line[Len(line)] = "\r"
    THEN SubSeq(line, 1, Len(line) - 1)
    ELSE line

\* Lines end at "\n" or "\r\n"; a final line needs no line ending.
Lines(text) ==
    LET pieces == Split(text, "\n")
        n      == Len(pieces)
    IN  [k \in 1..(IF pieces[n] = <<>> THEN n - 1 ELSE n) |->
            IF k < n THEN StripCr(pieces[k]) ELSE pieces[k]]

RECURSIVE SplitWhitespace(_)
SplitWhitespace(line) ==
    LET s == TrimStart(line)
    IN  IF s = <<>>
        THEN <<>>
        ELSE LET ws  == {i \in 1..Len(s) : s[i] \in Whitespace}
                 cut == IF ws = {} THEN Len(s) + 1
                        ELSE CHOOSE j \in ws : \A k \in ws : j <= k
             IN  <<SubSeq(s, 1, cut - 1)>> \o SplitWhitespace(SubSeq(s, cut, Len(s)))

\* lines.map(split_whitespace).filter(|v| v.len() >= n)
RowsWithAtLeast(stdout, n) ==
    SelectSeq([k \in DOMAIN Lines(stdout) |-> SplitWhitespace(Lines(stdout)[k])],
              LAMBDA v : Len(v) >= n)

\* .map(|v| (v[0], v[1])).collect::<BTreeMap>(): a later row replaces an
\* earlier one of the same name.
datasets_results(stdout) ==
    LET rows == RowsWithAtLeast(stdout, 2)
        keys == {rows[k][1] : k \in DOMAIN rows}
    IN  [name \in keys |->
            LET at == {k \in DOMAIN rows : rows[k][1] = name}
            IN  rows[CHOOSE k \in at : \A j \in at : j <= k][2]]

---------------------------------------------------------------------------
(* An external process, as the library sees it: whether it spawned,        *)
(* whether its pipes and its exit could be read, its exit status, its      *)
(* standard output and its standard error.                                 *)

Outcomes == {"spawn_error", "io_error", "nonzero", "zero"}

SpawnErrorText == "No such file or directory (os error 2)"

IoErrorText == "stream did not contain valid UTF-8"

StderrText == "text on standard error"

Proc(outcome, stdout) ==
    [outcome |-> outcome,
     stdout  |-> IF outcome \in {"zero", "nonzero"} THEN stdout ELSE <<>>,
     stderr  |-> IF outcome = "nonzero" THEN StderrText ELSE ""]

status_success_Always(proc) == TRUE

\* status.success()
status_success(proc) == proc.outcome = "zero"

---------------------------------------------------------------------------
(* zfs_is_key_loaded, zfs_is_dataset_mounted: given the name and the       *)
(* process `zfs get keystatus` / `zfs list` turned out to be.              *)

zfs_is_key_loaded_SpawnIsSystemError(zfs_dataset, proc) ==
    LET v == check_and_sanitize_zfs_dataset_name(zfs_dataset)
    IN  IF IsErr(v) THEN v
        ELSE IF proc.outcome = "spawn_error"
        THEN Err("SystemError", <<>>, SpawnErrorText)
        ELSE IF proc.outcome = "io_error"
        THEN Err("SystemError", <<>>, IoErrorText)
        ELSE IF status_success(proc)
        THEN LET m == datasets_results(proc.stdout)
             IN  IF v.text \in DOMAIN m
                 THEN MapSome(parse_key_available_state(m[v.text]))
                 ELSE OkNone
        ELSE Err("KeyLoadedCheckFailed", v.text, proc.stderr)

zfs_is_key_loaded(zfs_dataset, proc) ==
    LET v == check_and_sanitize_zfs_dataset_name(zfs_dataset)
    IN  IF IsErr(v) THEN v
        ELSE IF proc.outcome = "spawn_error"
        THEN Err("KeyLoadedCheckFailed", v.text, SpawnErrorText)
        ELSE IF proc.outcome = "io_error"
        THEN Err("SystemError", <<>>, IoErrorText)
        ELSE IF status_success(proc)
        THEN LET m == datasets_results(proc.stdout)
             IN  IF v.text \in DOMAIN m
                 THEN MapSome(parse_key_available_state(m[v.text]))
                 ELSE OkNone
        ELSE Err("KeyLoadedCheckFailed", v.text, proc.stderr)

zfs_is_dataset_mounted(zfs_dataset, proc) ==
    LET v == check_and_sanitize_zfs_dataset_name(zfs_dataset)
    IN  IF IsErr(v) THEN v
        ELSE IF proc.outcome = "spawn_error"
        THEN Err("IsMountedCheckCallFailed", v.text, SpawnErrorText)
        ELSE IF proc.outcome = "io_error"
        THEN Err("SystemError", <<>>, IoErrorText)
        ELSE IF status_success(proc)
        THEN LET m == datasets_results(proc.stdout)
             IN  IF v.text \in DOMAIN m
                 THEN IF m[v.text] = W_yes THEN OkSome(TRUE)
                      ELSE IF m[v.text] = W_no THEN OkSome(FALSE)
                      ELSE Err("UnexpectedStateForMount", m[v.text], "")
                 ELSE OkNone
        ELSE Err("IsMountedCheckCallFailed", v.text, proc.stderr)

---------------------------------------------------------------------------
(* zfs_list_datasets_mountpoints, zfs_list_encrypted_datasets: given the   *)
(* process `zfs list` turned out to be.  The map a listing returns is the  *)
(* text of its result.                                                     *)

OkMap(m) == [tag |-> "Ok", val |-> "BTreeMap", text |-> m, msg |-> ""]

zfs_list_datasets_mountpoints(proc) ==
    IF proc.outcome = "spawn_error"
    THEN Err("ListDatasetsMountPointsCallFailed", <<>>, SpawnErrorText)
    ELSE IF proc.outcome = "io_error"
    THEN Err("SystemError", <<>>, IoErrorText)
    ELSE IF status_success(proc)
    THEN OkMap(datasets_results(proc.stdout))
    ELSE Err("ListDatasetsMountPointsCallFailed", <<>>, proc.stderr)

DatasetMountedState_FieldsSwapped(dataset_name, is_mounted, is_key_loaded) ==
    [dataset_name |-> dataset_name,
     is_mounted |-> is_key_loaded,
     is_key_loaded |-> is_mounted]

\* struct DatasetMountedState
DatasetMountedState(dataset_name, is_mounted, is_key_loaded) ==
    [dataset_name |-> dataset_name,
     is_mounted |-> is_mounted,
     is_key_loaded |-> is_key_loaded]

encrypted_rows_KeepsSentinel(stdout) == RowsWithAtLeast(stdout, 3)

\* .filter(|v| v.len() >= 3).filter(|v| v[2].trim() != "-")
encrypted_rows(stdout) ==
    SelectSeq(RowsWithAtLeast(stdout, 3), LAMBDA v : Trim(v[3]) # W_dash)

\* The closure mapped over the rows: the mounted column is parsed first,
\* then the key-status column, and the first error is the row's result.
encrypted_row_entry(v) ==
    LET is_mounted    == parse_dataset_mounted_state(v[2])
        is_key_loaded == parse_key_available_state(v[3])
    IN  IF IsErr(is_mounted) THEN is_mounted
        ELSE IF IsErr(is_key_loaded) THEN is_key_loaded
        ELSE OkMap(DatasetMountedState(v[1], is_mounted.val = "true",
                                       is_key_loaded.val = "true"))

collect_encrypted_SkipsBadRows(rows) ==
    LET good == SelectSeq(rows, LAMBDA v : IsOk(encrypted_row_entry(v)))
    IN  OkMap([name \in {good[k][1] : k \in DOMAIN good} |->
            LET at == {k \in DOMAIN good : good[k][1] = name}
            IN  encrypted_row_entry(
                    good[CHOOSE k \in at : \A j \in at : j <= k]).text])

\* .collect::<Result<BTreeMap<_, _>, _>>(): the error of the first row
\* that has one, else the map, a later row replacing an earlier one of
\* the same name.
collect_encrypted(rows) ==
    LET bad == {k \in DOMAIN rows : IsErr(encrypted_row_entry(rows[k]))}
    IN  IF bad # {}
        THEN encrypted_row_entry(rows[CHOOSE k \in bad : \A j \in bad : k <= j])
        ELSE OkMap([name \in {rows[k][1] : k \in DOMAIN rows} |->
                 LET at == {k \in DOMAIN rows : rows[k][1] = name}
                 IN  encrypted_row_entry(
                         rows[CHOOSE k \in at : \A j \in at : j <= k]).text])

zfs_list_encrypted_datasets(proc) ==
    IF proc.outcome = "spawn_error"
    THEN Err("ListDatasetsMountPointsCallFailed", <<>>, SpawnErrorText)
    ELSE IF proc.outcome = "io_error"
    THEN Err("SystemError", <<>>, IoErrorText)
    ELSE IF status_success(proc)
    THEN collect_encrypted(encrypted_rows(proc.stdout))
    ELSE Err("ListUnmountedDatasetsCallFailed", <<>>, proc.stderr)

---------------------------------------------------------------------------
(* Harness of the state inspector: a token is given to one of the two      *)
(* parsers, or a scripted process (exit classification and output rows) is *)
(* given to one of the two single-dataset queries.                         *)

TokenWords ==
    {W_available, W_unavailable, W_dash, W_yes, W_no,
     W_Yes, W_dot, W_2222, W_on, <<>>, <<"y", " ", "e", "s">>}

\* The value columns of a scripted row: none, one, or two.
RowTails ==
    {<<>>}
    \cup {<<t>> : t \in {W_available, W_unavailable, W_dash, W_yes, W_no, W_on}}
    \cup {<<W_yes, W_available>>, <<W_no, W_dash>>}

ScriptedRows == {<<>>} \cup {<<n>> \o tail : n \in {DsA, DsB}, tail \in RowTails}

RECURSIVE SeqsUpTo(_, _)
SeqsUpTo(S, n) ==
    IF n = 0
    THEN {<<>>}
    ELSE LET shorter == SeqsUpTo(S, n - 1)
         IN  shorter \cup {<<x>> \o q : x \in S, q \in {r \in shorter : Len(r) = n - 1}}

ScriptedOutputs == SeqsUpTo(ScriptedRows, MaxRows)

QueryNames == {DsA, <<" ">> \o DsA \o <<"\t">>, <<"-">> \o DsA}

RECURSIVE Join(_, _)
Join(fields, sep) ==
    IF fields = <<>> THEN <<>>
    ELSE IF Len(fields) = 1 THEN fields[1]
    ELSE fields[1] \o <<sep>> \o Join(Tail(fields), sep)

\* What the tool prints for the rows: tab-separated columns (-H), one row
\* per line.
RECURSIVE Render(_)
Render(rows) ==
    IF rows = <<>> THEN <<>>
    ELSE Join(rows[1], "\t") \o <<"\n">> \o Render(Tail(rows))

TokenInputs ==
    {[kind |-> "token", text |-> l \o word \o t, outcome |-> "", rows |-> <<>>] :
        word \in TokenWords, l \in Pads, t \in Pads}

QueryInputs ==
    {[kind |-> "query", text |-> n, outcome |-> o, rows |-> r] :
        n \in QueryNames, o \in Outcomes, r \in ScriptedOutputs}

InitInspect ==
    /\ fin \in TokenInputs \cup QueryInputs
    /\ fout = NoResult
    /\ fprev = NoCall
    /\ fstage = "input"
    /\ LifecycleIdle

ParseKey ==
    /\ fstage = "input"
    /\ fin.kind = "token"
    /\ fout' = parse_key_available_state(fin.text)
    /\ fstage' = "parse_key"
    /\ UNCHANGED <<fin, fprev, zfs, call, last>>

ParseMounted ==
    /\ fstage = "input"
    /\ fin.kind = "token"
    /\ fout' = parse_dataset_mounted_state(fin.text)
    /\ fstage' = "parse_mounted"
    /\ UNCHANGED <<fin, fprev, zfs, call, last>>

QueryKey ==
    /\ fstage = "input"
    /\ fin.kind = "query"
    /\ fout' = zfs_is_key_loaded(fin.text, Proc(fin.outcome, Render(fin.rows)))
    /\ fstage' = "query_key"
    /\ UNCHANGED <<fin, fprev, zfs, call, last>>

QueryMounted ==
    /\ fstage = "input"
    /\ fin.kind = "query"
    /\ fout' = zfs_is_dataset_mounted(fin.text, Proc(fin.outcome, Render(fin.rows)))
    /\ fstage' = "query_mounted"
    /\ UNCHANGED <<fin, fprev, zfs, call, last>>

NextInspect == ParseKey \/ ParseMounted \/ QueryKey \/ QueryMounted

SpecInspect == InitInspect /\ [][NextInspect]_vars

---------------------------------------------------------------------------
(* What the claims about the queries say, stated on the scripted rows.     *)

\* The rows that name the dataset: a name column equal to it and a value
\* column after it.
RowsNaming(rows, name) ==
    {k \in 1..Len(rows) : Len(rows[k]) >= 2 /\ rows[k][1] = name}

\* The status token looked up for the dataset: that of the last such row.
LookedUp(rows, name) ==
    LET at == RowsNaming(rows, name)
    IN  rows[CHOOSE k \in at : \A j \in at : j <= k][2]

\* The query in this state ran its external command to exit status 0 and
\* a row names the dataset asked for.
QueryFound ==
    /\ fin.kind = "query"
    /\ WellFormed(Stripped(fin.text))
    /\ fin.outcome = "zero"
    /\ RowsNaming(fin.rows, Stripped(fin.text)) # {}

\* C6: the key-status query maps the looked-up token exhaustively and
\* exactly: "available" gives Some(true), "unavailable" gives Some(false),
\* the sentinel "-" gives Some(true), any other token gives
\* UnexpectedStateForKey carrying the token.
C6_KeyStatusMapping ==
    (fstage = "query_key" /\ QueryFound) =>
        LET tok == LookedUp(fin.rows, Stripped(fin.text))
        IN  fout = IF tok = W_available THEN OkSome(TRUE)
                   ELSE IF tok = W_unavailable THEN OkSome(FALSE)
                   ELSE IF tok = W_dash THEN OkSome(TRUE)
                   ELSE Err("UnexpectedStateForKey", tok, "")

\* C7: the mount-status token mapping is exhaustive and exact, in
\* parse_dataset_mounted_state (whitespace around the token allowed) and
\* in zfs_is_dataset_mounted: "yes" gives true, "no" gives false, every
\* other token, "available" and "unavailable" included, gives
\* UnexpectedStateForMount carrying the token as it was given.
C7_MountStatusMapping ==
    /\ fstage = "parse_mounted" =>
           fout = IF Stripped(fin.text) = W_yes THEN OkBool(TRUE)
                  ELSE IF Stripped(fin.text) = W_no THEN OkBool(FALSE)
                  ELSE Err("UnexpectedStateForMount", fin.text, "")
    /\ (fstage = "query_mounted" /\ QueryFound) =>
           LET tok == LookedUp(fin.rows, Stripped(fin.text))
           IN  fout = IF tok = W_yes THEN OkSome(TRUE)
                      ELSE IF tok = W_no THEN OkSome(FALSE)
                      ELSE Err("UnexpectedStateForMount", tok, "")

\* C7 witness: " yes" with whitespace around it has been parsed to true.
C7_Witness ==
    /\ fstage = "parse_mounted"
    /\ fin.text # W_yes
    /\ Stripped(fin.text) = W_yes
    /\ fout = OkBool(TRUE)

\* C10: a single-dataset query returns None exactly when its external
\* command exited with status 0 and no output row names the dataset (name
\* column and value column); when the command fails to spawn, exits
\* nonzero or cannot be read, the query returns an error, never None,
\* whether or not a row names the dataset.
C10_NoneIffAbsent ==
    fstage \in {"query_key", "query_mounted"} =>
        /\ fout = OkNone <=>
               /\ WellFormed(Stripped(fin.text))
               /\ fin.outcome = "zero"
               /\ RowsNaming(fin.rows, Stripped(fin.text)) = {}
        /\ (WellFormed(Stripped(fin.text)) /\ fin.outcome # "zero") =>
               /\ IsErr(fout)
               /\ fout.val \in
                    IF fin.outcome = "io_error" THEN {"SystemError"}
                    ELSE IF fstage = "query_key" THEN {"KeyLoadedCheckFailed"}
                    ELSE {"IsMountedCheckCallFailed"}

\* C10 witness: the key-status query ran to exit status 0 on an output
\* that lists another dataset only, and returned None.
C10_Witness ==
    /\ fstage = "query_key"
    /\ fin.outcome = "zero"
    /\ \E k \in 1..Len(fin.rows) : Len(fin.rows[k]) >= 2 /\ fin.rows[k][1] = DsB
    /\ RowsNaming(fin.rows, Stripped(fin.text)) = {}
    /\ fout = OkNone

---------------------------------------------------------------------------
(* The external system.  p/a is an encrypted dataset, p/b an unencrypted   *)
(* one (its key status is the sentinel); no other dataset exists.          *)

Datasets == {DsA, DsB}

\* A valid name of no dataset.
DsC == <<"q">>

KeyLoaded(d) == zfs[d].keystatus = W_available

KeyNotLoaded(d) == zfs[d].keystatus = W_unavailable

Mounted(d) == zfs[d].mounted = W_yes

\* The rows of the datasets in the tool's order, DsA then DsB.
ListingRows(column) == <<<<DsA, zfs[DsA][column]>>, <<DsB, zfs[DsB][column]>>>>

\* stdout of `zfs get keystatus -H -o name,value`
KeystatusOutput == Render(ListingRows("keystatus"))

\* stdout of `zfs list -H -o name,mounted`
MountedOutput == Render(ListingRows("mounted"))

\* Where the datasets are mounted when they are: the mountpoint property.
Mountpoint(d) == <<"/">> \o d

\* stdout of `zfs list -H -o name,mountpoint`
MountpointOutput == Render(<<<<DsA, Mountpoint(DsA)>>, <<DsB, Mountpoint(DsB)>>>>)

\* stdout of `zfs list -H -o name,mounted,keystatus`
EncryptedOutput ==
    Render(<<<<DsA, zfs[DsA].mounted, zfs[DsA].keystatus>>,
             <<DsB, zfs[DsB].mounted, zfs[DsB].keystatus>>>>)

\* What a privileged command that is carried out does to the datasets.
\* The key status of an unencrypted dataset stays not applicable.
Effect(cmd, d) ==
    IF d \notin Datasets THEN zfs
    ELSE IF cmd = "load-key" /\ zfs[d].keystatus # W_dash
    THEN [zfs EXCEPT ![d].keystatus = W_available]
    ELSE IF cmd = "unload-key" /\ zfs[d].keystatus # W_dash
    THEN [zfs EXCEPT ![d].keystatus = W_unavailable]
    ELSE IF cmd = "mount" THEN [zfs EXCEPT ![d].mounted = W_yes]
    ELSE IF cmd = "umount" THEN [zfs EXCEPT ![d].mounted = W_no]
    ELSE zfs

---------------------------------------------------------------------------
(* The calls. *)

Callers == {"c1"}

Ops == {"zfs_load_key", "zfs_unload_key", "zfs_mount_dataset",
        "zfs_unmount_dataset", "zfs_is_key_loaded", "zfs_is_dataset_mounted"}

LifecycleOps == {"zfs_load_key", "zfs_unload_key", "zfs_mount_dataset",
                 "zfs_unmount_dataset"}

\* The two listings, which take no name.
ListOps == {"zfs_list_datasets_mountpoints", "zfs_list_encrypted_datasets"}

\* A name with a leading symbol, and one with whitespace inside.
BadNameSymbol == <<"-">> \o DsA

BadNameSpace == <<"p", "/", " ", "a">>

CallNames == {DsA, <<" ">> \o DsA \o <<"\t">>, DsB, DsC, BadNameSymbol, BadNameSpace}

Passphrase == <<"k", "e", "y">>

NoDatasetState == [keystatus |-> <<>>, mounted |-> <<>>]

\* A call: where it is, what it was given, the state of its dataset when
\* it was entered (before) and at its last process (seen), the processes it
\* has spawned and its result.
IdleCall ==
    [pc |-> "idle", op |-> "", raw |-> <<>>, dataset |-> <<>>,
     before |-> NoDatasetState, seen |-> NoDatasetState,
     spawned |-> <<>>, result |-> NoResult]

NoLast ==
    [op |-> "", dataset |-> <<>>, before |-> NoDatasetState,
     result |-> NoResult, privileged |-> 0, failed |-> FALSE]

PrivilegedCmd_UnloadUnmounts(op) ==
    CASE op = "zfs_load_key" -> "load-key"
      [] op = "zfs_unload_key" -> "umount"
      [] op = "zfs_mount_dataset" -> "mount"
      [] op = "zfs_unmount_dataset" -> "umount"

\* The external command of each lifecycle operation: sudo -n zfs <cmd> <dataset>
PrivilegedCmd(op) ==
    CASE op = "zfs_load_key" -> "load-key"
      [] op = "zfs_unload_key" -> "unload-key"
      [] op = "zfs_mount_dataset" -> "mount"
      [] op = "zfs_unmount_dataset" -> "umount"

\* The error a failed spawn or a nonzero exit of that command is mapped to.
CmdFailed(op) ==
    CASE op = "zfs_load_key" -> "LoadKeyCmdFailed"
      [] op = "zfs_unload_key" -> "UnloadKeyCmdFailed"
      [] op = "zfs_mount_dataset" -> "MountCmdFailed"
      [] op = "zfs_unmount_dataset" -> "UnmountCmdFailed"

PrivilegedCmds == {"load-key", "unload-key", "mount", "umount"}

QueryCmds == {"get keystatus", "list name,mounted"}

\* The command of each listing: zfs list -H -o <columns>
ListCmd(op) ==
    IF op = "zfs_list_datasets_mountpoints"
    THEN "list name,mountpoint" ELSE "list name,mounted,keystatus"

Spawn(cmd, arg, stdin, outcome) ==
    [cmd |-> cmd, arg |-> arg, stdin |-> stdin, outcome |-> outcome]

\* The first step of each operation after the name is sanitized.
FirstStep(op) ==
    IF op \in {"zfs_unmount_dataset", "zfs_is_dataset_mounted"} THEN "mntq" ELSE "keyq"

---------------------------------------------------------------------------
(* What each lifecycle operation does with the answer of a state query:    *)
(* return (pc "done" with the result) or go on to its next step.           *)

Done(r) == [pc |-> "done", result |-> r]

GoOn(step) == [pc |-> step, result |-> NoResult]

zfs_load_key_on_key_status_AlwaysLoads(dataset, r) ==
    IF IsErr(r) THEN Done(r)
    ELSE IF r = OkSome(TRUE) THEN GoOn("act")
    ELSE IF r = OkSome(FALSE) THEN GoOn("act")
    ELSE Done(Err("DatasetNotFound", dataset, ""))

\* zfs_load_key: match zfs_is_key_loaded(&dataset)?
zfs_load_key_on_key_status(dataset, r) ==
    IF IsErr(r) THEN Done(r)
    ELSE IF r = OkSome(TRUE) THEN Done(OkUnit)
    ELSE IF r = OkSome(FALSE) THEN GoOn("act")
    ELSE Done(Err("DatasetNotFound", dataset, ""))

zfs_unload_key_on_key_status_Inverted(dataset, r) ==
    IF IsErr(r) THEN Done(r)
    ELSE IF r = OkSome(TRUE) THEN Done(OkUnit)
    ELSE IF r = OkSome(FALSE) THEN GoOn("act")
    ELSE Done(Err("DatasetNotFound", dataset, ""))

\* zfs_unload_key: match zfs_is_key_loaded(&dataset)?
zfs_unload_key_on_key_status(dataset, r) ==
    IF IsErr(r) THEN Done(r)
    ELSE IF r = OkSome(TRUE) THEN GoOn("act")
    ELSE IF r = OkSome(FALSE) THEN Done(OkUnit)
    ELSE Done(Err("DatasetNotFound", dataset, ""))

zfs_mount_dataset_on_key_status_NoKeyCheck(dataset, r) ==
    IF IsErr(r) THEN Done(r)
    ELSE IF r = OkSome(TRUE) THEN GoOn("mntq")
    ELSE IF r = OkSome(FALSE) THEN GoOn("mntq")
    ELSE Done(Err("DatasetNotFound", dataset, ""))

\* zfs_mount_dataset: match zfs_is_key_loaded(&dataset)?
zfs_mount_dataset_on_key_status(dataset, r) ==
    IF IsErr(r) THEN Done(r)
    ELSE IF r = OkSome(TRUE) THEN GoOn("mntq")
    ELSE IF r = OkSome(FALSE) THEN Done(Err("KeyNotLoadedForMount", dataset, ""))
    ELSE Done(Err("DatasetNotFound", dataset, ""))

zfs_mount_dataset_on_mounted_NoShortCircuit(dataset, r) ==
    IF IsErr(r) THEN Done(r)
    ELSE IF r = OkSome(TRUE) THEN GoOn("act")
    ELSE IF r = OkSome(FALSE) THEN GoOn("act")
    ELSE Done(Err("DatasetNotFound", dataset, ""))

zfs_mount_dataset_on_mounted_AbsentMounts(dataset, r) ==
    IF IsErr(r) THEN Done(r)
    ELSE IF r = OkSome(TRUE) THEN Done(OkUnit)
    ELSE GoOn("act")

\* zfs_mount_dataset: match zfs_is_dataset_mounted(&dataset)?
zfs_mount_dataset_on_mounted(dataset, r) ==
    IF IsErr(r) THEN Done(r)
    ELSE IF r = OkSome(TRUE) THEN Done(OkUnit)
    ELSE IF r = OkSome(FALSE) THEN GoOn("act")
    ELSE Done(Err("DatasetNotFound", dataset, ""))

zfs_unmount_dataset_on_mounted_AbsentIsUnmounted(dataset, r) ==
    IF IsErr(r) THEN Done(r)
    ELSE IF r = OkSome(TRUE) THEN GoOn("act")
    ELSE Done(OkUnit)

\* zfs_unmount_dataset: match zfs_is_dataset_mounted(&dataset)?
zfs_unmount_dataset_on_mounted(dataset, r) ==
    IF IsErr(r) THEN Done(r)
    ELSE IF r = OkSome(TRUE) THEN GoOn("act")
    ELSE IF r = OkSome(FALSE) THEN Done(OkUnit)
    ELSE Done(Err("DatasetNotFound", dataset, ""))

AfterKeyQuery(op, dataset, r) ==
    CASE op = "zfs_load_key" -> zfs_load_key_on_key_status(dataset, r)
      [] op = "zfs_unload_key" -> zfs_unload_key_on_key_status(dataset, r)
      [] op = "zfs_mount_dataset" -> zfs_mount_dataset_on_key_status(dataset, r)
      [] op = "zfs_is_key_loaded" -> Done(r)

AfterMountedQuery(op, dataset, r) ==
    CASE op = "zfs_mount_dataset" -> zfs_mount_dataset_on_mounted(dataset, r)
      [] op = "zfs_unmount_dataset" -> zfs_unmount_dataset_on_mounted(dataset, r)
      [] op = "zfs_is_dataset_mounted" -> Done(r)

privileged_result_IgnoresStatus(op, dataset, proc) ==
    IF proc.outcome = "spawn_error"
    THEN Err(CmdFailed(op), dataset, SpawnErrorText)
    ELSE IF proc.outcome = "io_error"
    THEN Err("SystemError", <<>>, IoErrorText)
    ELSE OkUnit

privileged_result_DropsStderr(op, dataset, proc) ==
    IF proc.outcome = "spawn_error"
    THEN Err(CmdFailed(op), dataset, SpawnErrorText)
    ELSE IF proc.outcome = "io_error"
    THEN Err("SystemError", <<>>, IoErrorText)
    ELSE IF status_success(proc)
    THEN OkUnit
    ELSE Err(CmdFailed(op), dataset, "")

\* The result of a lifecycle operation that reached its external command.
privileged_result(op, dataset, proc) ==
    IF proc.outcome = "spawn_error"
    THEN Err(CmdFailed(op), dataset, SpawnErrorText)
    ELSE IF proc.outcome = "io_error"
    THEN Err("SystemError", <<>>, IoErrorText)
    ELSE IF status_success(proc)
    THEN OkUnit
    ELSE Err(CmdFailed(op), dataset, proc.stderr)

\* What load-key is given on its standard input: writeln!(writer, "{}", passphrase)
StdinOf(op) == IF op = "zfs_load_key" THEN Passphrase \o <<"\n">> ELSE <<>>

---------------------------------------------------------------------------
(* The lifecycle state machine.  A call is entered with its name checked   *)
(* (the two queries check theirs in the query itself), then runs its state *)
(* queries and its external command one process at a time, and returns.    *)

InitLifecycle ==
    /\ zfs \in [Datasets -> [keystatus : {W_available, W_unavailable, W_dash},
                             mounted : {W_yes, W_no}]]
    /\ zfs[DsA].keystatus # W_dash
    /\ zfs[DsB].keystatus = W_dash
    /\ \A d \in Datasets : ~(KeyNotLoaded(d) /\ Mounted(d))
    /\ call = [c \in Callers |-> IdleCall]
    /\ last = NoLast
    /\ fin = <<>>
    /\ fout = NoResult
    /\ fprev = NoCall
    /\ fstage = "lifecycle"

Init == InitLifecycle

StateBefore(name) == IF name \in Datasets THEN zfs[name] ELSE NoDatasetState

\* A caller enters an operation; no other call is in progress.
Begin(c) ==
    /\ \A o \in Callers : call[o].pc = "idle"
    /\ \E op \in Ops, raw \in CallNames :
         LET v == check_and_sanitize_zfs_dataset_name(raw)
             entered == [IdleCall EXCEPT !.op = op, !.raw = raw]
         IN  call' = [call EXCEPT ![c] =
                 IF op \notin LifecycleOps
                 THEN [entered EXCEPT !.pc = FirstStep(op), !.dataset = raw,
                                      !.before = StateBefore(v.text)]
                 ELSE IF IsErr(v)
                 THEN [entered EXCEPT !.pc = "done", !.result = v]
                 ELSE [entered EXCEPT !.pc = FirstStep(op), !.dataset = v.text,
                                      !.before = StateBefore(v.text)]]
    /\ UNCHANGED <<zfs, last, fin, fout, fprev, fstage>>

\* A caller enters one of the two listings; no other call is in progress.
BeginListing(c) ==
    /\ \A o \in Callers : call[o].pc = "idle"
    /\ \E op \in ListOps :
         call' = [call EXCEPT ![c] = [IdleCall EXCEPT !.pc = "listq", !.op = op]]
    /\ UNCHANGED <<zfs, last, fin, fout, fprev, fstage>>

ListingStep_Unmounts(c) ==
    /\ call[c].pc = "listq"
    /\ \E o \in Outcomes :
         LET op == call[c].op
             r  == IF op = "zfs_list_datasets_mountpoints"
                   THEN zfs_list_datasets_mountpoints(Proc(o, MountpointOutput))
                   ELSE zfs_list_encrypted_datasets(Proc(o, EncryptedOutput))
         IN  call' = [call EXCEPT
                 ![c].pc = "done",
                 ![c].result = r,
                 ![c].spawned = Append(@, Spawn(ListCmd(op), <<>>, <<>>, o))]
    /\ zfs' = Effect("umount", DsA)
    /\ UNCHANGED <<last, fin, fout, fprev, fstage>>

\* The one process of a listing, and the map or the error made of it.
ListingStep(c) ==
    /\ call[c].pc = "listq"
    /\ \E o \in Outcomes :
         LET op == call[c].op
             r  == IF op = "zfs_list_datasets_mountpoints"
                   THEN zfs_list_datasets_mountpoints(Proc(o, MountpointOutput))
                   ELSE zfs_list_encrypted_datasets(Proc(o, EncryptedOutput))
         IN  call' = [call EXCEPT
                 ![c].pc = "done",
                 ![c].result = r,
                 ![c].spawned = Append(@, Spawn(ListCmd(op), <<>>, <<>>, o))]
    /\ UNCHANGED <<zfs, last, fin, fout, fprev, fstage>>

\* zfs_is_key_loaded(&dataset), and what the operation makes of its answer.
KeyQueryStep(c) ==
    /\ call[c].pc = "keyq"
    /\ LET d == call[c].dataset
           v == check_and_sanitize_zfs_dataset_name(d)
       IN  IF IsErr(v)
           THEN call' = [call EXCEPT ![c].pc = "done", ![c].result = v]
           ELSE \E o \in Outcomes :
                  LET r  == zfs_is_key_loaded(d, Proc(o, KeystatusOutput))
                      nx == AfterKeyQuery(call[c].op, d, r)
                  IN  call' = [call EXCEPT
                          ![c].pc = nx.pc,
                          ![c].result = nx.result,
                          ![c].seen = StateBefore(v.text),
                          ![c].spawned = Append(@, Spawn("get keystatus", <<>>, <<>>, o))]
    /\ UNCHANGED <<zfs, last, fin, fout, fprev, fstage>>

\* zfs_is_dataset_mounted(&dataset), and what the operation makes of its answer.
MountedQueryStep(c) ==
    /\ call[c].pc = "mntq"
    /\ LET d == call[c].dataset
           v == check_and_sanitize_zfs_dataset_name(d)
       IN  IF IsErr(v)
           THEN call' = [call EXCEPT ![c].pc = "done", ![c].result = v]
           ELSE \E o \in Outcomes :
                  LET r  == zfs_is_dataset_mounted(d, Proc(o, MountedOutput))
                      nx == AfterMountedQuery(call[c].op, d, r)
                  IN  call' = [call EXCEPT
                          ![c].pc = nx.pc,
                          ![c].result = nx.result,
                          ![c].seen = StateBefore(v.text),
                          ![c].spawned = Append(@, Spawn("list name,mounted", <<>>, <<>>, o))]
    /\ UNCHANGED <<zfs, last, fin, fout, fprev, fstage>>

ActStep_RetriesOnFailure(c) ==
    /\ call[c].pc = "act"
    /\ \E o \in Outcomes, carried \in BOOLEAN :
         /\ o = "zero" => carried
         /\ o \in {"spawn_error", "nonzero"} => ~carried
         /\ LET op  == call[c].op
                d   == call[c].dataset
                cmd == PrivilegedCmd(op)
            IN  /\ zfs' = IF carried THEN Effect(cmd, d) ELSE zfs
                /\ call' = [call EXCEPT
                       ![c].pc = IF o = "nonzero" /\ Len(call[c].spawned) < 3
                                 THEN "act" ELSE "done",
                       ![c].result = privileged_result(op, d, Proc(o, <<>>)),
                       ![c].seen = IF carried THEN Effect(cmd, d)[d] ELSE zfs[d],
                       ![c].spawned = Append(@, Spawn(cmd, d, StdinOf(op), o))]
    /\ UNCHANGED <<last, fin, fout, fprev, fstage>>

\* sudo -n zfs <cmd> <dataset>: the external command of the operation.  It
\* is carried out when it exits with status 0, not when it fails to spawn
\* or exits nonzero; when its pipes or its exit cannot be read the library
\* does not know.
ActStep(c) ==
    /\ call[c].pc = "act"
    /\ \E o \in Outcomes, carried \in BOOLEAN :
         /\ o = "zero" => carried
         /\ o \in {"spawn_error", "nonzero"} => ~carried
         /\ LET op  == call[c].op
                d   == call[c].dataset
                cmd == PrivilegedCmd(op)
            IN  /\ zfs' = IF carried THEN Effect(cmd, d) ELSE zfs
                /\ call' = [call EXCEPT
                       ![c].pc = "done",
                       ![c].result = privileged_result(op, d, Proc(o, <<>>)),
                       ![c].seen = IF carried THEN Effect(cmd, d)[d] ELSE zfs[d],
                       ![c].spawned = Append(@, Spawn(cmd, d, StdinOf(op), o))]
    /\ UNCHANGED <<last, fin, fout, fprev, fstage>>

NumPrivileged(spawned) ==
    Cardinality({k \in 1..Len(spawned) : spawned[k].cmd \in PrivilegedCmds})

\* The call returns to its caller.
Return(c) ==
    /\ call[c].pc = "done"
    /\ last' = [op |-> call[c].op,
                dataset |-> call[c].dataset,
                before |-> call[c].before,
                result |-> call[c].result,
                privileged |-> NumPrivileged(call[c].spawned),
                failed |-> \E k \in 1..Len(call[c].spawned) :
                               call[c].spawned[k].outcome # "zero"]
    /\ call' = [call EXCEPT ![c] = IdleCall]
    /\ UNCHANGED <<zfs, fin, fout, fprev, fstage>>

Next ==
    \E c \in Callers :
        \/ Begin(c)
        \/ BeginListing(c)
        \/ ListingStep(c)
        \/ KeyQueryStep(c)
        \/ MountedQueryStep(c)
        \/ ActStep(c)
        \/ Return(c)

Spec == Init /\ [][Next]_vars

---------------------------------------------------------------------------
(* What the claims about the lifecycle say of a call.                      *)

IsPrivileged(sp) == sp.cmd \in PrivilegedCmds

\* Every state query the call has run so far exited with status 0.
QueriesSucceeded(k) ==
    \A j \in 1..Len(k.spawned) :
        k.spawned[j].cmd \in QueryCmds => k.spawned[j].outcome = "zero"

\* The target state of the operation held when the call was entered.
TargetHeldBefore(k) ==
    \/ k.op = "zfs_load_key" /\ k.before.keystatus = W_available
    \/ k.op = "zfs_unload_key" /\ k.before.keystatus = W_unavailable
    \/ /\ k.op = "zfs_mount_dataset"
       /\ k.before.keystatus = W_available
       /\ k.before.mounted = W_yes
    \/ k.op = "zfs_unmount_dataset" /\ k.before.mounted = W_no

\* C1: in each of the six operations, a name that fails validation makes
\* the call return DatasetNameIsInvalid with no external process spawned
\* or attempted, query or privileged; and the dataset argument of every
\* privileged invocation is the trimmed name, every segment of it
\* non-empty, of ASCII alphanumerics and - _ . : only, and starting with
\* an alphanumeric.
C1_InvalidNameNeverReachesAProcess ==
    \A c \in Callers :
        LET k == call[c]
        IN  /\ (k.op \in Ops /\ Malformed(Stripped(k.raw))) =>
                   /\ k.spawned = <<>>
                   /\ k.pc # "act"
                   /\ k.pc = "done" => Rejected(k.result)
            /\ \A j \in 1..Len(k.spawned) :
                   IsPrivileged(k.spawned[j]) =>
                       /\ k.spawned[j].arg = Stripped(k.raw)
                       /\ WellFormed(k.spawned[j].arg)

\* C1 witness: a load_key call with a malformed name has returned
\* DatasetNameIsInvalid without a process, and the call after it, given a
\* name with whitespace around it, has run a privileged command.
C1_Witness ==
    /\ last.op = "zfs_load_key"
    /\ Rejected(last.result)
    /\ \E c \in Callers :
         /\ call[c].raw # Stripped(call[c].raw)
         /\ \E j \in 1..Len(call[c].spawned) : IsPrivileged(call[c].spawned[j])

\* C2: zfs_mount_dataset on an existing dataset whose key is not loaded
\* never attempts the external mount, and returns KeyNotLoadedForMount
\* (once its key-status query has run to exit status 0).
C2_MountRefusedWithoutKey ==
    \A c \in Callers :
        LET k == call[c]
        IN  (k.op = "zfs_mount_dataset" /\ k.before.keystatus = W_unavailable) =>
                /\ \A j \in 1..Len(k.spawned) : k.spawned[j].cmd # "mount"
                /\ k.pc # "act"
                /\ (k.pc = "done" /\ QueriesSucceeded(k)) =>
                       k.result = Err("KeyNotLoadedForMount", k.dataset, "")

\* C2 witness: a mount call on a dataset whose key is not loaded has
\* returned KeyNotLoadedForMount.
C2_Witness ==
    \E c \in Callers :
        /\ call[c].pc = "done"
        /\ call[c].op = "zfs_mount_dataset"
        /\ call[c].before.keystatus = W_unavailable
        /\ call[c].before.mounted = W_no
        /\ call[c].result.val = "KeyNotLoadedForMount"

NotLoadedMounted(d) == KeyNotLoaded(d) /\ Mounted(d)

\* C3 as stated: starting from a state other than (NotLoaded, Mounted), no
\* sequence of load_key, unload_key, mount and unmount calls brings a
\* dataset into (NotLoaded, Mounted).
C3_NeverNotLoadedMounted == \A d \in Datasets : ~NotLoadedMounted(d)

\* C3, amended: over any sequence of load_key, unload_key, mount and
\* unmount calls, a dataset that is not in (NotLoaded, Mounted) comes into
\* it only by the external command of an unload_key call made while the
\* dataset is mounted; load_key, mount and unmount never bring it there.
C3_OnlyUnloadKeyOfMountedDataset ==
    [][\A d \in Datasets :
          (~NotLoadedMounted(d) /\ NotLoadedMounted(d)') =>
              \E c \in Callers :
                  /\ call[c].pc = "act"
                  /\ call[c].op = "zfs_unload_key"
                  /\ call[c].dataset = d
                  /\ Mounted(d)]_vars

\* C3 witness: an unload_key call on a mounted dataset whose key was
\* loaded has returned success, and the dataset is in (NotLoaded, Mounted).
C3_Witness ==
    \E c \in Callers :
        /\ call[c].pc = "done"
        /\ call[c].op = "zfs_unload_key"
        /\ call[c].before.keystatus = W_available
        /\ call[c].before.mounted = W_yes
        /\ call[c].result = OkUnit
        /\ NotLoadedMounted(call[c].dataset)

SecondMount(k) ==
    /\ k.op = "zfs_mount_dataset"
    /\ last.op = "zfs_mount_dataset"
    /\ last.dataset = k.dataset
    /\ last.before.keystatus = W_available
    /\ last.before.mounted = W_no
    /\ ~last.failed

\* C5: mount called twice in sequence on an existing, unmounted dataset
\* whose key is loaded, every external command exiting with status 0 and
\* nobody else changing the state, makes exactly one external mount
\* invocation in total: the first call makes it and returns success, the
\* second returns success without one.
C5_MountTwiceInvokesOnce ==
    \A c \in Callers :
        LET k == call[c]
        IN  SecondMount(k) =>
                /\ last.privileged = 1
                /\ last.result = OkUnit
                /\ \A j \in 1..Len(k.spawned) : ~IsPrivileged(k.spawned[j])
                /\ k.pc # "act"
                /\ (k.pc = "done" /\ QueriesSucceeded(k)) => k.result = OkUnit

\* C5 witness: the second of two such mount calls has returned success.
C5_Witness ==
    \E c \in Callers :
        /\ SecondMount(call[c])
        /\ call[c].pc = "done"
        /\ Len(call[c].spawned) = 2
        /\ call[c].result = OkUnit

\* The name the call was given is valid and names no dataset of the system.
NamesAbsentDataset(k) ==
    /\ k.pc # "idle"
    /\ WellFormed(Stripped(k.raw))
    /\ Stripped(k.raw) \notin Datasets

\* C11: load_key, unload_key, mount and unmount, called with a valid name
\* that the state query reports absent, make no privileged invocation and
\* return DatasetNotFound with the name (their state query having run to
\* exit status 0).
C11_AbsentDatasetNotFound ==
    \A c \in Callers :
        LET k == call[c]
        IN  (k.op \in LifecycleOps /\ NamesAbsentDataset(k)) =>
                /\ \A j \in 1..Len(k.spawned) : ~IsPrivileged(k.spawned[j])
                /\ k.pc # "act"
                /\ (k.pc = "done" /\ QueriesSucceeded(k)) =>
                       k.result = Err("DatasetNotFound", Stripped(k.raw), "")

\* C11 witness: an unmount call with a valid name of no dataset has run
\* its state query to exit status 0 and returned DatasetNotFound.
C11_Witness ==
    \E c \in Callers :
        /\ call[c].op = "zfs_unmount_dataset"
        /\ NamesAbsentDataset(call[c])
        /\ call[c].pc = "done"
        /\ Len(call[c].spawned) = 1
        /\ QueriesSucceeded(call[c])
        /\ call[c].result.val = "DatasetNotFound"

\* The state query that reads what a lifecycle operation changes, and the
\* answer that reports the operation's target state.
QueryOfTarget(op) ==
    IF op \in {"zfs_load_key", "zfs_unload_key"}
    THEN "zfs_is_key_loaded" ELSE "zfs_is_dataset_mounted"

TargetAnswer(op) == OkSome(op \in {"zfs_load_key", "zfs_mount_dataset"})

\* The call is the state query of what the call returned just before it
\* changed, on the same dataset, and that call returned success.
QueryAfterSuccess(k) ==
    /\ last.op \in LifecycleOps
    /\ last.result = OkUnit
    /\ k.op = QueryOfTarget(last.op)
    /\ Stripped(k.raw) = last.dataset

\* C12: when a lifecycle operation has returned success and nobody else
\* has changed the dataset, the next state query of the dataset (run to
\* exit status 0) reports the target state: Some(true) from
\* zfs_is_key_loaded after load_key and Some(false) after unload_key,
\* Some(true) from zfs_is_dataset_mounted after mount and Some(false)
\* after unmount.
C12_SuccessMeansTargetState ==
    \A c \in Callers :
        LET k == call[c]
        IN  (QueryAfterSuccess(k) /\ k.pc = "done" /\ QueriesSucceeded(k)) =>
                k.result = TargetAnswer(last.op)

\* C12 witness: a load_key call that ran the external load-key has
\* returned success and the zfs_is_key_loaded call after it has returned
\* Some(true).
C12_Witness ==
    \E c \in Callers :
        /\ QueryAfterSuccess(call[c])
        /\ last.op = "zfs_load_key"
        /\ last.privileged = 1
        /\ call[c].pc = "done"
        /\ call[c].result = OkSome(TRUE)

\* The call is an unload_key that follows a returned, successful load_key
\* of the same dataset, which found the dataset with its key not loaded.
UnloadAfterLoad(k) ==
    /\ k.op = "zfs_unload_key"
    /\ last.op = "zfs_load_key"
    /\ last.dataset = k.dataset
    /\ last.before.keystatus = W_unavailable
    /\ last.result = OkUnit

\* C13: for an existing dataset whose key is not loaded, a successful
\* load_key followed by a successful unload_key leaves the key status
\* NotLoaded and the mount status as it was before the load_key.
C13_LoadThenUnloadRestores ==
    \A c \in Callers :
        LET k == call[c]
        IN  (UnloadAfterLoad(k) /\ k.pc = "done" /\ k.result = OkUnit) =>
                /\ zfs[k.dataset].keystatus = W_unavailable
                /\ zfs[k.dataset].mounted = last.before.mounted

\* C13 witness: the unload_key of such a pair has run the external
\* unload-key and returned success.
C13_Witness ==
    \E c \in Callers :
        /\ UnloadAfterLoad(call[c])
        /\ last.privileged = 1
        /\ call[c].pc = "done"
        /\ call[c].result = OkUnit
        /\ \E j \in 1..Len(call[c].spawned) : call[c].spawned[j].cmd = "unload-key"

---------------------------------------------------------------------------
(* Harness of the combined listing: a scripted process (exit               *)
(* classification and output rows of name, mounted, keystatus) is given to *)
(* zfs_list_encrypted_datasets.                                            *)

\* The columns after the name of a scripted row of the listing: the two of
\* a well-formed row, in and out of the two vocabularies, one only, or one
\* too many.
ListTails ==
    {<<W_yes, W_available>>, <<W_no, W_unavailable>>,
     <<W_yes, W_dash>>, <<W_no, W_dash>>, <<W_on, W_dash>>,
     <<W_on, W_available>>, <<W_yes, W_on>>, <<W_on, W_2222>>,
     <<W_yes>>, <<W_no, W_available, W_dot>>}

ListedRows == {<<>>} \cup {<<n>> \o tail : n \in {DsA, DsB}, tail \in ListTails}

ListInputs ==
    {[kind |-> "list", text |-> <<>>, outcome |-> o, rows |-> r] :
        o \in Outcomes, r \in SeqsUpTo(ListedRows, MaxRows)}

InitList ==
    /\ fin \in ListInputs
    /\ fout = NoResult
    /\ fprev = NoCall
    /\ fstage = "input"
    /\ LifecycleIdle

ListEncrypted ==
    /\ fstage = "input"
    /\ fin.kind = "list"
    /\ fout' = zfs_list_encrypted_datasets(Proc(fin.outcome, Render(fin.rows)))
    /\ fstage' = "list_encrypted"
    /\ UNCHANGED <<fin, fprev, zfs, call, last>>

NextList == ListEncrypted

SpecList == InitList /\ [][NextList]_vars

\* The scripted rows the listing is about: three columns or more and a
\* key-status column that is not the sentinel.
EncryptedRowsOf(rows) ==
    {k \in 1..Len(rows) : Len(rows[k]) >= 3 /\ rows[k][3] # W_dash}

\* Both status columns of the row are in their vocabulary.
RowParses(row) ==
    /\ row[2] \in {W_yes, W_no}
    /\ row[3] \in {W_available, W_unavailable}

\* C14: the listing of encrypted datasets, its command having exited with
\* status 0, has no entry but for the name of a row of three columns whose
\* key-status column is not the sentinel "-" (so none for a dataset whose
\* key-status column was the sentinel), and, when all those rows parse,
\* it is a map with an entry for each of them.
C14_ListingIsTheEncryptedRows ==
    (fstage = "list_encrypted" /\ fin.outcome = "zero") =>
        LET kept == EncryptedRowsOf(fin.rows)
        IN  /\ IsOk(fout) =>
                   \A name \in DOMAIN fout.text :
                       \E k \in kept : fin.rows[k][1] = name
            /\ (\A k \in kept : RowParses(fin.rows[k])) =>
                   /\ IsOk(fout)
                   /\ \A k \in kept : fin.rows[k][1] \in DOMAIN fout.text

\* C14 witness: of a row of an encrypted dataset and a row of a dataset
\* with the sentinel, the listing has returned the entry of the first
\* only.
C14_Witness ==
    /\ fstage = "list_encrypted"
    /\ fin.outcome = "zero"
    /\ fin.rows = <<(<<DsB>> \o <<W_yes, W_dash>>), (<<DsA>> \o <<W_no, W_unavailable>>)>>
    /\ IsOk(fout)
    /\ DOMAIN fout.text = {DsA}
    /\ fout.text[DsA] = DatasetMountedState(DsA, FALSE, FALSE)

---------------------------------------------------------------------------
(* The listings as calls of the lifecycle state machine.                   *)

\* The call is a single-dataset query of an encrypted dataset that follows
\* a returned listing of the encrypted datasets, the external state being
\* the same for both; both ran their command to exit status 0.
QueryAfterListing(k) ==
    /\ last.op = "zfs_list_encrypted_datasets"
    /\ IsOk(last.result)
    /\ k.op \in {"zfs_is_key_loaded", "zfs_is_dataset_mounted"}
    /\ k.pc = "done"
    /\ QueriesSucceeded(k)
    /\ Stripped(k.raw) \in Datasets
    /\ zfs[Stripped(k.raw)].keystatus # W_dash

\* C15: in one external state and for every encrypted dataset d, the
\* single-dataset queries and the listing of encrypted datasets agree:
\* zfs_is_key_loaded(d) is Some(b) exactly when the listing's entry of d
\* has is_key_loaded = b, and zfs_is_dataset_mounted(d) is Some(m) exactly
\* when it has is_mounted = m.
C15_QueriesAgreeWithListing ==
    \A c \in Callers :
        LET k == call[c]
            d == Stripped(k.raw)
            m == last.result.text
        IN  QueryAfterListing(k) =>
                \A b \in BOOLEAN :
                    k.result = OkSome(b) <=>
                        /\ d \in DOMAIN m
                        /\ b = IF k.op = "zfs_is_key_loaded"
                               THEN m[d].is_key_loaded ELSE m[d].is_mounted

\* C15 witness: the listing has returned p/a as not mounted with its key
\* loaded, and zfs_is_dataset_mounted of p/a after it has returned
\* Some(false).
C15_Witness ==
    \E c \in Callers :
        /\ QueryAfterListing(call[c])
        /\ call[c].op = "zfs_is_dataset_mounted"
        /\ call[c].result = OkSome(FALSE)
        /\ last.result.text[DsA] = DatasetMountedState(DsA, FALSE, TRUE)

---------------------------------------------------------------------------
(* The external command of a lifecycle call and what the call returns.     *)

\* The privileged invocations the call has made.
PrivilegedOf(k) == {j \in 1..Len(k.spawned) : IsPrivileged(k.spawned[j])}

\* C16: a lifecycle operation that has run its external command returns
\* success exactly when the command exited with status 0, and when the
\* command exited with another status it returns its own failure error
\* (LoadKeyCmdFailed, UnloadKeyCmdFailed, MountCmdFailed,
\* UnmountCmdFailed) with the dataset name and the text captured from
\* standard error.
C16_SuccessIffExitZero ==
    \A c \in Callers :
        LET k == call[c]
        IN  \A j \in PrivilegedOf(k) :
                /\ k.op \in LifecycleOps
                /\ k.pc = "done"
                /\ k.result = OkUnit <=> k.spawned[j].outcome = "zero"
                /\ k.spawned[j].outcome = "nonzero" =>
                       k.result = Err(CASE k.op = "zfs_load_key" -> "LoadKeyCmdFailed"
                                        [] k.op = "zfs_unload_key" -> "UnloadKeyCmdFailed"
                                        [] k.op = "zfs_mount_dataset" -> "MountCmdFailed"
                                        [] k.op = "zfs_unmount_dataset" -> "UnmountCmdFailed",
                                      k.spawned[j].arg, StderrText)

\* C16 witness: an unmount call has run umount, which exited nonzero, and
\* has returned UnmountCmdFailed; the load_key before it had returned
\* success after its load-key.
C16_Witness ==
    \E c \in Callers :
        /\ call[c].op = "zfs_unmount_dataset"
        /\ \E j \in PrivilegedOf(call[c]) : call[c].spawned[j].outcome = "nonzero"
        /\ call[c].result.val = "UnmountCmdFailed"
        /\ last.op = "zfs_load_key"
        /\ last.privileged = 1
        /\ last.result = OkUnit

---------------------------------------------------------------------------
(* How a command that did not spawn and one that exited nonzero are        *)
(* reported.                                                               *)

\* The last process of the call, and what the call would have returned
\* had that process spawned and exited nonzero.
LastSpawned(k) == k.spawned[Len(k.spawned)]

ResultOnNonzeroExit(k) ==
    LET cmd == LastSpawned(k).cmd
        p   == Proc("nonzero", <<>>)
    IN  CASE cmd \in PrivilegedCmds -> privileged_result(k.op, k.dataset, p)
          [] cmd = "get keystatus" -> zfs_is_key_loaded(k.dataset, p)
          [] cmd = "list name,mounted" -> zfs_is_dataset_mounted(k.dataset, p)
          [] cmd = "list name,mountpoint" -> zfs_list_datasets_mountpoints(p)
          [] cmd = "list name,mounted,keystatus" -> zfs_list_encrypted_datasets(p)

\* C17 as stated: whatever the external command, a call whose command
\* failed to spawn returns an error of another kind than the one it
\* returns when the command spawns and exits nonzero.
C17_SpawnFailureHasItsOwnKind ==
    \A c \in Callers :
        LET k == call[c]
        IN  (k.pc = "done" /\ k.spawned # <<>>
                /\ LastSpawned(k).outcome = "spawn_error") =>
                k.result.val # ResultOnNonzeroExit(k).val

\* The error kind each command's failure is reported with.
FailureKindOf(cmd, outcome) ==
    CASE cmd = "load-key" -> "LoadKeyCmdFailed"
      [] cmd = "unload-key" -> "UnloadKeyCmdFailed"
      [] cmd = "mount" -> "MountCmdFailed"
      [] cmd = "umount" -> "UnmountCmdFailed"
      [] cmd = "get keystatus" -> "KeyLoadedCheckFailed"
      [] cmd = "list name,mounted" -> "IsMountedCheckCallFailed"
      [] cmd = "list name,mountpoint" -> "ListDatasetsMountPointsCallFailed"
      [] cmd = "list name,mounted,keystatus" ->
             IF outcome = "spawn_error"
             THEN "ListDatasetsMountPointsCallFailed"
             ELSE "ListUnmountedDatasetsCallFailed"

\* C17, amended: a command that fails to spawn and one that spawns and
\* exits nonzero are reported with the same error kind, the one of the
\* operation's command, and differ in the message only (the text of the
\* operating system's error, or the text captured from standard error);
\* zfs_list_encrypted_datasets alone reports the two with two kinds,
\* ListDatasetsMountPointsCallFailed and ListUnmountedDatasetsCallFailed.
C17_SpawnFailureSharesTheKind ==
    \A c \in Callers :
        LET k == call[c]
        IN  (k.pc = "done" /\ k.spawned # <<>>
                /\ LastSpawned(k).outcome \in {"spawn_error", "nonzero"}) =>
                /\ IsErr(k.result)
                /\ k.result.val =
                       FailureKindOf(LastSpawned(k).cmd, LastSpawned(k).outcome)
                /\ k.result.msg = IF LastSpawned(k).outcome = "spawn_error"
                                  THEN SpawnErrorText ELSE StderrText

\* C17 witness: a load_key call whose load-key failed to spawn has
\* returned LoadKeyCmdFailed, as the load_key call before it had whose
\* load-key exited nonzero.
C17_Witness ==
    \E c \in Callers :
        /\ call[c].pc = "done"
        /\ call[c].op = "zfs_load_key"
        /\ call[c].spawned # <<>>
        /\ LastSpawned(call[c]).cmd = "load-key"
        /\ LastSpawned(call[c]).outcome = "spawn_error"
        /\ call[c].result.val = "LoadKeyCmdFailed"
        /\ last.op = "zfs_load_key"
        /\ last.privileged = 1
        /\ last.result.val = "LoadKeyCmdFailed"
        /\ last.result.msg = StderrText

---------------------------------------------------------------------------
(* One privileged invocation a call.                                       *)

\* C20: a call of a lifecycle operation makes at most one privileged
\* invocation, of the command of the operation (load-key, unload-key,
\* mount, umount), as its last process: no retry and no compensating
\* invocation follows it, whatever its outcome; and what the call has
\* changed of its dataset is at most what that one invocation does, the
\* key status for load-key and unload-key, the mount status for mount and
\* umount, and nothing when there was no invocation.
C20_AtMostOnePrivilegedInvocation ==
    \A c \in Callers :
        LET k == call[c]
        IN  /\ Cardinality(PrivilegedOf(k)) <= 1
            /\ \A j \in PrivilegedOf(k) :
                   /\ j = Len(k.spawned)
                   /\ k.pc = "done"
                   /\ \/ k.op = "zfs_load_key" /\ k.spawned[j].cmd = "load-key"
                      \/ k.op = "zfs_unload_key" /\ k.spawned[j].cmd = "unload-key"
                      \/ k.op = "zfs_mount_dataset" /\ k.spawned[j].cmd = "mount"
                      \/ k.op = "zfs_unmount_dataset" /\ k.spawned[j].cmd = "umount"
            /\ (k.op \in LifecycleOps /\ k.dataset \in Datasets) =>
                   /\ zfs[k.dataset].keystatus # k.before.keystatus =>
                          /\ PrivilegedOf(k) # {}
                          /\ k.op \in {"zfs_load_key", "zfs_unload_key"}
                   /\ zfs[k.dataset].mounted # k.before.mounted =>
                          /\ PrivilegedOf(k) # {}
                          /\ k.op \in {"zfs_mount_dataset", "zfs_unmount_dataset"}

\* C20 witness: a mount call has returned MountCmdFailed after its one
\* mount, which exited nonzero, with the dataset as it was.
C20_Witness ==
    \E c \in Callers :
        /\ call[c].pc = "done"
        /\ call[c].op = "zfs_mount_dataset"
        /\ call[c].result.val = "MountCmdFailed"
        /\ Len(call[c].spawned) = 3
        /\ LastSpawned(call[c]).cmd = "mount"
        /\ LastSpawned(call[c]).outcome = "nonzero"
        /\ zfs[call[c].dataset] = call[c].before

---------------------------------------------------------------------------
(* zfs_load_key and its child process, pipe by pipe.  The child has been   *)
(* spawned with its three standard streams piped.  The parent puts the     *)
(* passphrase line into its BufWriter, flushes it into the pipe of the     *)
(* child's standard input, drops (closes) that pipe, reads the child's     *)
(* standard output to end-of-file, then its standard error to end-of-file, *)
(* then waits for its exit.  The child reads its input to end-of-file,     *)
(* writes its output and exits; its exit closes its ends of the pipes.  A  *)
(* pipe holds PipeCapacity bytes: a write to a full pipe blocks, a read of *)
(* an empty pipe blocks until a byte or the end-of-file comes.             *)

PipeCapacity == 2

\* The most bytes the child writes to one of its output streams.
MaxChildOutput == 3

\* What the child does: how many bytes it writes to standard output and
\* to standard error, which of the two it writes first, and its exit.
ChildScripts ==
    [kind : {"child"}, out : 0..MaxChildOutput, err : 0..MaxChildOutput,
     errfirst : BOOLEAN, outcome : {"zero", "nonzero"}]

InitPipes ==
    /\ fin \in ChildScripts
    /\ call = [ppc |-> "writeln", writer |-> <<>>,
               stdin |-> <<>>, stdin_closed |-> FALSE,
               stdout |-> 0, stderr |-> 0,
               stdout_string |-> 0, stderr_string |-> 0,
               cpc |-> "reading", got |-> <<>>,
               out_left |-> fin.out, err_left |-> fin.err]
    /\ fout = NoResult
    /\ fprev = NoCall
    /\ fstage = "pipes"
    /\ zfs = <<>>
    /\ last = <<>>

\* writeln!(writer, "{}", passphrase): the line goes into the BufWriter.
ParentWriteln ==
    /\ call.ppc = "writeln"
    /\ call' = [call EXCEPT !.ppc = "flush", !.writer = StdinOf("zfs_load_key")]
    /\ UNCHANGED <<fin, fout, fprev, fstage, zfs, last>>

\* writer.flush(): the buffered bytes go into the pipe as it has room.
ParentFlush ==
    /\ call.ppc = "flush"
    /\ IF call.writer = <<>>
       THEN call' = [call EXCEPT !.ppc = "drop_stdin"]
       ELSE /\ Len(call.stdin) < PipeCapacity
            /\ call' = [call EXCEPT !.stdin = Append(@, Head(call.writer)),
                                    !.writer = Tail(@)]
    /\ UNCHANGED <<fin, fout, fprev, fstage, zfs, last>>

\* The end of the `if let Some(mut stdin)` block: stdin is dropped.
ParentDropStdin ==
    /\ call.ppc = "drop_stdin"
    /\ call' = [call EXCEPT !.ppc = "read_stdout", !.stdin_closed = TRUE]
    /\ UNCHANGED <<fin, fout, fprev, fstage, zfs, last>>

\* stdout.read_to_string(&mut stdout_string)
ParentReadStdout ==
    /\ call.ppc = "read_stdout"
    /\ IF call.stdout > 0
       THEN call' = [call EXCEPT !.stdout = @ - 1, !.stdout_string = @ + 1]
       ELSE /\ call.cpc = "exited"
            /\ call' = [call EXCEPT !.ppc = "read_stderr"]
    /\ UNCHANGED <<fin, fout, fprev, fstage, zfs, last>>

\* stderr.read_to_string(&mut stderr_string)
ParentReadStderr ==
    /\ call.ppc = "read_stderr"
    /\ IF call.stderr > 0
       THEN call' = [call EXCEPT !.stderr = @ - 1, !.stderr_string = @ + 1]
       ELSE /\ call.cpc = "exited"
            /\ call' = [call EXCEPT !.ppc = "wait"]
    /\ UNCHANGED <<fin, fout, fprev, fstage, zfs, last>>

\* child.wait(), and the result made of the exit status.
ParentWait ==
    /\ call.ppc = "wait"
    /\ call.cpc = "exited"
    /\ call' = [call EXCEPT !.ppc = "returned"]
    /\ fout' = privileged_result("zfs_load_key", DsA, Proc(fin.outcome, <<>>))
    /\ UNCHANGED <<fin, fprev, fstage, zfs, last>>

\* The child reads its standard input, to end-of-file.
ChildRead ==
    /\ call.cpc = "reading"
    /\ IF call.stdin # <<>>
       THEN call' = [call EXCEPT !.got = Append(@, Head(call.stdin)),
                                !.stdin = Tail(@)]
       ELSE /\ call.stdin_closed
            /\ call' = [call EXCEPT !.cpc = "writing"]
    /\ UNCHANGED <<fin, fout, fprev, fstage, zfs, last>>

\* The stream the child writes next, when it has something left to write.
ChildStream ==
    IF fin.errfirst
    THEN IF call.err_left > 0 THEN "stderr" ELSE "stdout"
    ELSE IF call.out_left > 0 THEN "stdout" ELSE "stderr"

\* The child writes a byte of its output, the pipe having room for it.
ChildWrite ==
    /\ call.cpc = "writing"
    /\ call.out_left + call.err_left > 0
    /\ IF ChildStream = "stdout"
       THEN /\ call.stdout < PipeCapacity
            /\ call' = [call EXCEPT !.stdout = @ + 1, !.out_left = @ - 1]
       ELSE /\ call.stderr < PipeCapacity
            /\ call' = [call EXCEPT !.stderr = @ + 1, !.err_left = @ - 1]
    /\ UNCHANGED <<fin, fout, fprev, fstage, zfs, last>>

\* The child exits, its output written.
ChildExit ==
    /\ call.cpc = "writing"
    /\ call.out_left + call.err_left = 0
    /\ call' = [call EXCEPT !.cpc = "exited"]
    /\ UNCHANGED <<fin, fout, fprev, fstage, zfs, last>>

NextPipes ==
    \/ ParentWriteln
    \/ ParentFlush
    \/ ParentDropStdin
    \/ ParentReadStdout
    \/ ParentReadStderr
    \/ ParentWait
    \/ ChildRead
    \/ ChildWrite
    \/ ChildExit

SpecPipes == InitPipes /\ [][NextPipes]_vars

\* The parent is in a call that cannot go on until the child acts.
ParentBlocked ==
    \/ call.ppc = "flush" /\ call.writer # <<>> /\ Len(call.stdin) = PipeCapacity
    \/ call.ppc = "read_stdout" /\ call.stdout = 0 /\ call.cpc # "exited"
    \/ call.ppc = "read_stderr" /\ call.stderr = 0 /\ call.cpc # "exited"
    \/ call.ppc = "wait" /\ call.cpc # "exited"

\* The child is in a call that cannot go on until the parent acts.
ChildBlocked ==
    \/ call.cpc = "reading" /\ call.stdin = <<>> /\ ~call.stdin_closed
    \/ /\ call.cpc = "writing"
       /\ call.out_left + call.err_left > 0
       /\ IF ChildStream = "stdout"
          THEN call.stdout = PipeCapacity
          ELSE call.stderr = PipeCapacity

\* C19: in load_key the passphrase is written to the child's input as one
\* newline-terminated line, flushed and closed before the parent reads
\* the child's output, and with this ordering the parent and the child
\* are never both blocked on each other (so that the call returns
\* whenever the child reads its input to end-of-file, writes its output
\* and exits).
C19_NeverBothBlocked ==
    /\ call.ppc \in {"read_stdout", "read_stderr", "wait", "returned"} =>
           /\ call.stdin_closed
           /\ call.got \o call.stdin = Passphrase \o <<"\n">>
    /\ ~(ParentBlocked /\ ChildBlocked)

---------------------------------------------------------------------------
(* Two callers at once.  The library holds no lock and no state of its     *)
(* own: two calls of lifecycle operations on the same dataset interleave   *)
(* process by process, each deciding on what its own queries reported.     *)
(* Every process here spawns and is read to its exit status.               *)

ConcCallers == {"c1", "c2"}

InitConc ==
    /\ zfs \in [Datasets -> [keystatus : {W_available, W_unavailable, W_dash},
                             mounted : {W_yes, W_no}]]
    /\ zfs[DsA].keystatus # W_dash
    /\ zfs[DsB] = [keystatus |-> W_dash, mounted |-> W_no]
    /\ \A d \in Datasets : ~(KeyNotLoaded(d) /\ Mounted(d))
    /\ call = [c \in ConcCallers |-> IdleCall]
    /\ last = NoLast
    /\ fin = <<>>
    /\ fout = NoResult
    /\ fprev = NoCall
    /\ fstage = "concurrent"

\* A caller enters a lifecycle operation on p/a, whatever the other does.
BeginConc(c) ==
    /\ call[c].pc = "idle"
    /\ \E op \in LifecycleOps :
         LET v == check_and_sanitize_zfs_dataset_name(DsA)
         IN  call' = [call EXCEPT ![c] =
                 [IdleCall EXCEPT !.pc = FirstStep(op), !.op = op, !.raw = DsA,
                                  !.dataset = v.text, !.before = zfs[v.text]]]
    /\ UNCHANGED <<zfs, last, fin, fout, fprev, fstage>>

\* The call returns to its caller.
ReturnConc(c) ==
    /\ call[c].pc = "done"
    /\ call' = [call EXCEPT ![c] = IdleCall]
    /\ UNCHANGED <<zfs, last, fin, fout, fprev, fstage>>

\* Every process of the calls in progress spawned and was read.
ProcessesRan ==
    \A c \in ConcCallers : \A j \in 1..Len(call[c].spawned) :
        call[c].spawned[j].outcome \in {"zero", "nonzero"}

NextConc ==
    \E c \in ConcCallers :
        \/ BeginConc(c)
        \/ KeyQueryStep(c) /\ ProcessesRan'
        \/ MountedQueryStep(c) /\ ProcessesRan'
        \/ ActStep(c) /\ ProcessesRan'
        \/ ReturnConc(c)

SpecConc == InitConc /\ [][NextConc]_vars

\* The target state of the operation holds in the dataset state.
TargetIn(op, state) ==
    \/ op = "zfs_load_key" /\ state.keystatus = W_available
    \/ op = "zfs_unload_key" /\ state.keystatus = W_unavailable
    \/ op = "zfs_mount_dataset" /\ state.mounted = W_yes
    \/ op = "zfs_unmount_dataset" /\ state.mounted = W_no

\* The call is about to return success.
ReturnsSuccess(k) == k.pc = "done" /\ k.op \in LifecycleOps /\ k.result = OkUnit

\* C18 as stated: with two callers running lifecycle operations on the
\* same dataset concurrently, no operation returns success while its
\* target state does not hold at the moment it returns, and the dataset
\* never ends in (NotLoaded, Mounted).
C18_RaceIsBenign ==
    /\ \A c \in ConcCallers :
           ReturnsSuccess(call[c]) =>
               TargetIn(call[c].op, zfs[call[c].dataset])
    /\ ~NotLoadedMounted(DsA)

\* C18, amended: with two callers running lifecycle operations on the
\* same dataset concurrently, an operation returns success only if its
\* target state held at its last external process (its state query
\* reported it, or its command exited with status 0); the state may have
\* been changed by the other caller when it returns.
C18_SuccessMeansTargetWasSeen ==
    \A c \in ConcCallers :
        ReturnsSuccess(call[c]) => TargetIn(call[c].op, call[c].seen)

\* C18 witness: a load_key call is about to return success, its query
\* having reported the key loaded, while the unload_key of the other
\* caller has since unloaded the key of the unmounted dataset and is
\* about to return success too.
C18_Witness ==
    \E c \in ConcCallers, o \in ConcCallers :
        /\ ReturnsSuccess(call[c])
        /\ call[c].op = "zfs_load_key"
        /\ Len(call[c].spawned) = 1
        /\ KeyNotLoaded(call[c].dataset)
        /\ ~Mounted(call[c].dataset)
        /\ ReturnsSuccess(call[o])
        /\ call[o].op = "zfs_unload_key"
        /\ Len(call[o].spawned) = 2

---------------------------------------------------------------------------
(* Harness of the checks of zfs_mount_dataset: the two state queries of a  *)
(* mount call are each given a scripted process of its own, so that what   *)
(* the key-status query and the mount-status query report of the dataset   *)
(* need not agree; the call runs up to its external mount.                 *)

\* The rows a scripted state query prints: of p/a with one of the two
\* status words of the query, or of another dataset.
KeyRows == {<<DsA, W_available>>, <<DsA, W_unavailable>>, <<DsB, W_available>>}

MountedRows == {<<DsA, W_yes>>, <<DsA, W_no>>, <<DsB, W_yes>>}

MountInputs ==
    {[kind |-> "mount", text |-> DsA,
      key |-> [outcome |-> ko, rows |-> kr],
      mounted |-> [outcome |-> mo, rows |-> mr]] :
        ko \in Outcomes, kr \in SeqsUpTo(KeyRows, MaxRows),
        mo \in Outcomes, mr \in SeqsUpTo(MountedRows, MaxRows)}

\* fprev.in is the list of the state queries the call has run.
InitMount ==
    /\ fin \in MountInputs
    /\ fout = NoResult
    /\ fprev = NoCall
    /\ fstage = "key_query"
    /\ LifecycleIdle

\* Where the call is after a decision: returned, or at its next step.
StageOf(nx) ==
    IF nx.pc = "done" THEN "returned"
    ELSE IF nx.pc = "mntq" THEN "mounted_query" ELSE "external_mount"

\* match zfs_is_key_loaded(&dataset)?
MountKeyCheck ==
    /\ fstage = "key_query"
    /\ LET d  == check_and_sanitize_zfs_dataset_name(fin.text).text
           r  == zfs_is_key_loaded(d, Proc(fin.key.outcome, Render(fin.key.rows)))
           nx == zfs_mount_dataset_on_key_status(d, r)
       IN  /\ fout' = nx.result
           /\ fstage' = StageOf(nx)
           /\ fprev' = [in |-> Append(fprev.in, "get keystatus"), out |-> r]
    /\ UNCHANGED <<fin, zfs, call, last>>

\* match zfs_is_dataset_mounted(&dataset)?
MountMountedCheck ==
    /\ fstage = "mounted_query"
    /\ LET d  == check_and_sanitize_zfs_dataset_name(fin.text).text
           r  == zfs_is_dataset_mounted(d, Proc(fin.mounted.outcome,
                                                Render(fin.mounted.rows)))
           nx == zfs_mount_dataset_on_mounted(d, r)
       IN  /\ fout' = nx.result
           /\ fstage' = StageOf(nx)
           /\ fprev' = [in |-> Append(fprev.in, "list name,mounted"), out |-> r]
    /\ UNCHANGED <<fin, zfs, call, last>>

NextMount == MountKeyCheck \/ MountMountedCheck

SpecMount == InitMount /\ [][NextMount]_vars

\* What a scripted query that exited with status 0 reports of p/a: the
\* status word of the last row naming it, or absence.
Reported(q) ==
    IF RowsNaming(q.rows, DsA) = {} THEN <<>> ELSE LookedUp(q.rows, DsA)

\* C21: zfs_mount_dataset queries the key status first and the mount
\* status second, and checks its preconditions before the short-circuit
\* of a mounted dataset: when the key is reported not loaded it returns
\* KeyNotLoadedForMount, whether the dataset is reported mounted or not,
\* without asking; when the key-status query, or with the key reported
\* loaded the mount-status query, reports the dataset absent it returns
\* DatasetNotFound; in none of these cases does it come to its external
\* mount (the query in question having exited with status 0).
C21_MountChecksInOrder ==
    /\ fprev.in \in {<<>>, <<"get keystatus">>,
                     <<"get keystatus", "list name,mounted">>}
    /\ (fstage # "key_query" /\ fin.key.outcome = "zero") =>
           /\ Reported(fin.key) = W_unavailable =>
                  /\ fstage = "returned"
                  /\ fprev.in = <<"get keystatus">>
                  /\ fout = Err("KeyNotLoadedForMount", DsA, "")
           /\ Reported(fin.key) = <<>> =>
                  /\ fstage = "returned"
                  /\ fprev.in = <<"get keystatus">>
                  /\ fout = Err("DatasetNotFound", DsA, "")
           /\ (Reported(fin.key) = W_available
                 /\ fin.mounted.outcome = "zero"
                 /\ Reported(fin.mounted) = <<>>) =>
                  /\ fstage \in {"mounted_query", "returned"}
                  /\ fstage = "returned" => fout = Err("DatasetNotFound", DsA, "")

\* C21 witness: for a dataset reported mounted but with its key not
\* loaded, the call has returned KeyNotLoadedForMount after its key-status
\* query alone.
C21_Witness ==
    /\ fstage = "returned"
    /\ fin.key.outcome = "zero"
    /\ Reported(fin.key) = W_unavailable
    /\ fin.mounted.outcome = "zero"
    /\ Reported(fin.mounted) = W_yes
    /\ fprev.in = <<"get keystatus">>
    /\ fout.val = "KeyNotLoadedForMount"

\* C21 second witness case: the key is reported loaded, the mount-status
\* query reports the dataset absent, and the call has returned
\* DatasetNotFound after both queries.
C21_AbsentAtSecondQuery ==
    /\ fstage = "returned"
    /\ fin.key.outcome = "zero"
    /\ Reported(fin.key) = W_available
    /\ fin.mounted.outcome = "zero"
    /\ Reported(fin.mounted) = <<>>
    /\ Len(fprev.in) = 2
    /\ fout.val = "DatasetNotFound"

---------------------------------------------------------------------------
(* What the calls leave alone.                                             *)

\* The four queries, and the one command of each.
ReadOnlyOps == {"zfs_is_key_loaded", "zfs_is_dataset_mounted"} \cup ListOps

CommandOfQuery(op) ==
    CASE op = "zfs_is_key_loaded" -> "get keystatus"
      [] op = "zfs_is_dataset_mounted" -> "list name,mounted"
      [] op = "zfs_list_datasets_mountpoints" -> "list name,mountpoint"
      [] op = "zfs_list_encrypted_datasets" -> "list name,mounted,keystatus"

\* C22: the four queries (key status, mount status, mountpoint listing,
\* listing of encrypted datasets) are read-only: whatever the outcome of
\* their process, every step of a call of one of them leaves the key and
\* mount state of every dataset as it is, and the call spawns nothing but
\* its own unprivileged zfs get / zfs list, never a load-key, unload-key,
\* mount or umount.
C22_QueriesAreReadOnly ==
    [][\A c \in Callers :
          call[c].op' \in ReadOnlyOps =>
              /\ zfs' = zfs
              /\ call[c].pc' # "act"
              /\ \A j \in 1..Len(call[c].spawned') :
                     /\ call[c].spawned'[j].cmd = CommandOfQuery(call[c].op')
                     /\ call[c].spawned'[j].cmd \notin PrivilegedCmds]_vars

\* C22 witness: a listing of encrypted datasets, run after a load_key that
\* loaded the key, has returned its map, and its process is the one
\* zfs list.
C22_Witness ==
    \E c \in Callers :
        /\ call[c].pc = "done"
        /\ call[c].op = "zfs_list_encrypted_datasets"
        /\ IsOk(call[c].result)
        /\ Len(call[c].spawned) = 1
        /\ call[c].spawned[1].cmd = "list name,mounted,keystatus"
        /\ last.op = "zfs_load_key"
        /\ last.privileged = 1
        /\ last.result = OkUnit

---------------------------------------------------------------------------
(* A row of the listing that does not parse.                               *)

\* C23: in the listing of encrypted datasets (its command having exited
\* with status 0), if a row whose key-status column is not the sentinel
\* has a mounted column other than yes / no or a key-status column other
\* than available / unavailable, the whole query returns the
\* unexpected-state error with the offending token, that of the first such
\* row and of its mounted column before its key-status column, and no map
\* of the rows that did parse.
C23_BadRowFailsTheListing ==
    (fstage = "list_encrypted" /\ fin.outcome = "zero") =>
        LET kept == EncryptedRowsOf(fin.rows)
            bad  == {k \in kept : ~RowParses(fin.rows[k])}
        IN  bad # {} =>
                LET row == fin.rows[CHOOSE k \in bad : \A j \in bad : k <= j]
                IN  fout = IF row[2] \notin {W_yes, W_no}
                           THEN Err("UnexpectedStateForMount", row[2], "")
                           ELSE Err("UnexpectedStateForKey", row[3], "")

\* C23 witness: of a row that parses and a later row with the key-status
\* column "on", the listing has returned UnexpectedStateForKey("on").
C23_Witness ==
    /\ fstage = "list_encrypted"
    /\ fin.outcome = "zero"
    /\ fin.rows = <<(<<DsA>> \o <<W_yes, W_available>>), (<<DsB>> \o <<W_yes, W_on>>)>>
    /\ fout = Err("UnexpectedStateForKey", W_on, "")

KeyOps == {"zfs_load_key", "zfs_unload_key"}

MountOps == {"zfs_mount_dataset", "zfs_unmount_dataset"}

\* C24: a lifecycle operation touches its own half of the state of its
\* own dataset only: over every step of a load_key or unload_key call no
\* dataset's mount state changes and the call spawns no mount or umount;
\* over every step of a mount or unmount call no dataset's key state
\* changes and the call spawns no load-key or unload-key; and the
\* privileged invocation of a call names the (trimmed) dataset the call
\* was given, the state of every other dataset staying as it is.
C24_OwnHalfOwnDataset ==
    [][\A c \in Callers :
          LET k == call[c]
          IN  /\ k.op \in KeyOps =>
                     \A d \in Datasets : zfs'[d].mounted = zfs[d].mounted
              /\ k.op \in MountOps =>
                     \A d \in Datasets : zfs'[d].keystatus = zfs[d].keystatus
              /\ k.op \in LifecycleOps =>
                     \A d \in Datasets \ {Stripped(k.raw)} : zfs'[d] = zfs[d]
              /\ \A j \in 1..Len(call[c].spawned') :
                     LET sp == call[c].spawned'[j]
                     IN  /\ sp.cmd \in {"mount", "umount"} => call[c].op' \in MountOps
                         /\ sp.cmd \in {"load-key", "unload-key"} =>
                                call[c].op' \in KeyOps
                         /\ IsPrivileged(sp) => sp.arg = Stripped(call[c].raw')]_vars

\* C24 witness: an unload_key call on the mounted p/a, given with
\* whitespace around the name, has run its unload-key on p/a, and p/a is
\* still mounted and p/b as it was.
C24_Witness ==
    \E c \in Callers :
        /\ call[c].pc = "done"
        /\ call[c].op = "zfs_unload_key"
        /\ call[c].raw # DsA
        /\ call[c].before.mounted = W_yes
        /\ call[c].spawned # <<>>
        /\ LastSpawned(call[c]).cmd = "unload-key"
        /\ LastSpawned(call[c]).arg = DsA
        /\ LastSpawned(call[c]).outcome = "zero"
        /\ Mounted(DsA)
        /\ zfs[DsB].keystatus = W_dash

=============================================================================
